---- MODULE Spec2Model ----
(***************************************************************************)
(* Model of the GRT API synchronisation of operating units                 *)
(* (operating_unit_grt_api_sync): the scheduled action                     *)
(* _sync_operating_unit_data_with_grt_cron, which fetches, filters,        *)
(* normalises and applies remote branch records, and the constraint        *)
(* _check_code_prefix_unique on res.company.grt_code_prefixes.             *)
(*                                                                         *)
(* Python values that the code compares or tests for truth are kept apart  *)
(* by a type tag: None, False/True and strings are different values, as    *)
(* they are for Python's != and for "if x".  Stored dates are <<y, m, d>>  *)
(* triples (<<>> for an empty date field); what the remote side sends and  *)
(* what the code compares are "%Y-%m-%d" strings.                          *)
(***************************************************************************)
EXTENDS Integers, Sequences, FiniteSets, TLC

VARIABLES
    companies,      \* company id -> value of grt_code_prefixes
    ous,            \* operating.unit records, the id is the index
    partners,       \* res.partner records, the id is the index
    syncCreated,    \* ids of the operating units created by a sync run
    last            \* what the last operation did (history of one step)

vars == <<companies, ous, partners, syncCreated, last>>

-----------------------------------------------------------------------------
(* Bound of the model *)

MaxPayloadLen == 2

(* Program constants *)

BranchLevel == 5
PrefixLen == 3
StatusOk == 200

-----------------------------------------------------------------------------
(* Python values *)

PyNone == [t |-> "none", v |-> ""]
PyFalse == [t |-> "bool", v |-> "False"]
PyTrue == [t |-> "bool", v |-> "True"]
PyStr(s) == [t |-> "str", v |-> s]

\* "if x": None, False and the empty string are falsy
Truthy(x) ==
    CASE x.t = "none" -> FALSE
      [] x.t = "bool" -> x.v = "True"
      [] OTHER -> x.v # ""

\* dict.get(k, default)
Get(d, k, default) == IF k \in DOMAIN d THEN d[k] ELSE default

Min(a, b) == IF a < b THEN a ELSE b

-----------------------------------------------------------------------------
(* Strings *)

\* s[:n]
Prefix(s, n) == SubSeq(s, 1, Min(n, Len(s)))

\* s.replace(" ", "")
RECURSIVE RemoveSpaces(_)
RemoveSpaces(s) ==
    IF Len(s) = 0 THEN s
    ELSE IF SubSeq(s, 1, 1) = " " THEN RemoveSpaces(SubSeq(s, 2, Len(s)))
    ELSE SubSeq(s, 1, 1) \o RemoveSpaces(SubSeq(s, 2, Len(s)))

\* s.split(","): always at least one piece, empty pieces kept
RECURSIVE SplitComma(_)
SplitComma(s) ==
    IF \E i \in 1..Len(s) : SubSeq(s, i, i) = ","
    THEN LET i == CHOOSE k \in 1..Len(s) :
                    /\ SubSeq(s, k, k) = ","
                    /\ \A j \in 1..(k - 1) : SubSeq(s, j, j) # ","
         IN  <<SubSeq(s, 1, i - 1)>> \o SplitComma(SubSeq(s, i + 1, Len(s)))
    ELSE <<s>>

\* s.strip(), for the blanks the model has
RECURSIVE Strip(_)
Strip(s) ==
    IF Len(s) > 0 /\ SubSeq(s, 1, 1) = " " THEN Strip(SubSeq(s, 2, Len(s)))
    ELSE IF Len(s) > 0 /\ SubSeq(s, Len(s), Len(s)) = " "
         THEN Strip(SubSeq(s, 1, Len(s) - 1))
    ELSE s

-----------------------------------------------------------------------------
(* Dates: fields.Date values and their "%Y-%m-%d" strings *)

NoDate == <<>>

DigitStr(n) == SubSeq("0123456789", n + 1, n + 1)

DigitVal(c) == CHOOSE n \in 0..9 : DigitStr(n) = c

\* n written with w digits, zero padded
RECURSIVE Pad(_, _)
Pad(n, w) == IF w = 0 THEN "" ELSE Pad(n \div 10, w - 1) \o DigitStr(n % 10)

\* the number a string of digits denotes
RECURSIVE Num(_)
Num(s) ==
    IF Len(s) = 0 THEN 0
    ELSE 10 * Num(SubSeq(s, 1, Len(s) - 1)) + DigitVal(SubSeq(s, Len(s), Len(s)))

\* datetime.strftime(d, "%Y-%m-%d")
Strftime(d) == Pad(d[1], 4) \o "-" \o Pad(d[2], 2) \o "-" \o Pad(d[3], 2)

\* what write()/create() store in a Date field for a value: a falsy value (None,
\* False, "") empties the field, a "%Y-%m-%d" string is parsed
ToDate(x) ==
    IF ~Truthy(x) THEN NoDate
    ELSE <<Num(SubSeq(x.v, 1, 4)), Num(SubSeq(x.v, 6, 7)), Num(SubSeq(x.v, 9, 10))>>

-----------------------------------------------------------------------------
(* res.company: grt_code_prefixes and its constraint *)

CompanyIds == {1, 2}

\* the order in which search() on res.company returns the companies; the ids
\* are labels, so that company 1 is the one found first
SearchOrder == <<1, 2>>

\* rec.grt_code_prefixes.replace(" ", "").split(",")
SplitPrefixes(value) == SplitComma(RemoveSpaces(value.v))

SeqRange(s) == {s[i] : i \in DOMAIN s}

\* {prefix.strip(): company.id for prefix in prefixes}
PrefixDict(prefixes, id) == [p \in {Strip(x) : x \in SeqRange(prefixes)} |-> id]

\* the loop of _get_ou_code_company_mapping over the companies found, in order;
\* dict.update lets a later company overwrite an earlier one
RECURSIVE UpdateMapping(_, _, _)
UpdateMapping(mapping, found, comp) ==
    IF found = <<>> THEN mapping
    ELSE UpdateMapping(
             PrefixDict(SplitPrefixes(comp[Head(found)]), Head(found)) @@ mapping,
             Tail(found), comp)

IsSet(comp, c) == comp[c] # PyFalse

\* _get_ou_code_company_mapping, on the company records comp:
\* search([("grt_code_prefixes", "!=", False)]) in the model's search order
GetOuCodeCompanyMapping(comp) ==
    UpdateMapping(<<>>, SelectSeq(SearchOrder, LAMBDA c : IsSet(comp, c)), comp)

\* _check_code_prefix_unique for the record rec, after the write: TRUE when no
\* ValidationError is raised
CheckCodePrefixUnique(comp, rec) ==
    LET mapping == GetOuCodeCompanyMapping(comp)
        prefixes == IF Truthy(comp[rec]) THEN SplitPrefixes(comp[rec]) ELSE <<>>
    IN  \A i \in DOMAIN prefixes :
            LET company_id == Get(mapping, prefixes[i], 0)
            IN  ~(company_id # 0 /\ company_id # rec)

\* values a user saves in grt_code_prefixes (False clears the field)
PrefixInputs == {PyFalse, PyStr("ABC"), PyStr("XYZ, ABC,")}

-----------------------------------------------------------------------------
(* The remote payload: a JSON array of objects.  An object is a function from
   the keys it has; management_id, l5_branch, l8_operating_unit and
   l10_operating_country hold strings, management_id_level_number a number,
   operational_from / operational_until a string or null, is_office a
   boolean. *)

\* res.country: name -> id
CountryMapping == ("Canada" :> 1)

\* _is_code_company
IsCodeCompany(branch_data, ou_code_company_mapping) ==
    Prefix(Get(branch_data, "management_id", ""), PrefixLen)
        \in DOMAIN ou_code_company_mapping

\* variant of _is_branch_level that also takes the levels above the branch
\* level (a test with <= for ==)
IsBranchLevelUpTo(branch_data) ==
    LET level == Get(branch_data, "management_id_level_number", 0)
    IN  level > 0 /\ level <= BranchLevel

\* _is_branch_level
IsBranchLevel(branch_data) ==
    Get(branch_data, "management_id_level_number", 0) = BranchLevel

\* _get_operating_unit_name
GetOperatingUnitName(code, branch_data) ==
    LET ou_name == code \o " - OU " \o Get(branch_data, "l8_operating_unit", "")
        branch_name ==
            IF Truthy(Get(branch_data, "is_office", PyNone))
            THEN ", " \o Get(branch_data, "l5_branch", "")
            ELSE ", Branch " \o Get(branch_data, "l5_branch", "")
    IN  ou_name \o branch_name

\* the dictionary built for one record in the try block of _get_grt_api_branches
BranchEntry(branch_data, ou_code_company_mapping) ==
    LET ou_code == branch_data["management_id"]
        country_name == Get(branch_data, "l10_operating_country", "")
    IN  [name |-> GetOperatingUnitName(ou_code, branch_data),
         valid_from |-> Get(branch_data, "operational_from", PyFalse),
         valid_until |-> Get(branch_data, "operational_until", PyFalse),
         branch |-> Get(branch_data, "l5_branch", ""),
         country |-> country_name,
         country_id |-> Get(CountryMapping, country_name, 0),
         company_id |-> Get(ou_code_company_mapping, Prefix(ou_code, PrefixLen), 0)]

\* branches_data[ou_code] = entry on an insertion-ordered dict, kept as a
\* sequence of [code, data]: a code already there keeps its place and takes
\* the new value
DictSet(d, code, entry) ==
    IF \E i \in DOMAIN d : d[i].code = code
    THEN [i \in DOMAIN d |->
             IF d[i].code = code THEN [code |-> code, data |-> entry] ELSE d[i]]
    ELSE Append(d, [code |-> code, data |-> entry])

\* the loop of _get_grt_api_branches; a record without management_id that
\* passes the filter raises KeyError, which is caught inside the loop (the
\* error is logged and the loop goes on)
RECURSIVE BranchesLoop(_, _, _)
BranchesLoop(branches_data, data, mapping) ==
    IF data = <<>> THEN branches_data
    ELSE LET branch_data == Head(data)
             rest == Tail(data)
         IN  IF ~IsBranchLevel(branch_data)
             THEN BranchesLoop(branches_data, rest, mapping)
             ELSE IF ~IsCodeCompany(branch_data, mapping)
             THEN BranchesLoop(branches_data, rest, mapping)
             ELSE IF "management_id" \notin DOMAIN branch_data
             THEN BranchesLoop(branches_data, rest, mapping)
             ELSE BranchesLoop(
                      DictSet(branches_data, branch_data["management_id"],
                              BranchEntry(branch_data, mapping)),
                      rest, mapping)

\* _get_grt_api_branches
GetGrtApiBranches(data) ==
    BranchesLoop(<<>>, data, GetOuCodeCompanyMapping(companies))

-----------------------------------------------------------------------------
(* operating.unit and res.partner records *)

\* "YYYY-MM-DD" or None, as _get_existing_operating_unit_data formats a date
DateOrNone(d) == IF d # NoDate THEN PyStr(Strftime(d)) ELSE PyNone

\* variant of _get_existing_operating_unit_data that only looks up the units
\* the sync has marked (a search on synced_with_grt for search([]))
GetExistingOperatingUnitDataSyncedOnly(units) ==
    LET known == {i \in DOMAIN units : units[i].synced_with_grt}
        codes == {units[i].code : i \in known}
        lastOf(code) == CHOOSE i \in known :
                            /\ units[i].code = code
                            /\ \A j \in known : units[j].code = code => j <= i
    IN  [code \in codes |->
            [object |-> lastOf(code),
             name |-> units[lastOf(code)].name,
             valid_from |-> DateOrNone(units[lastOf(code)].valid_from),
             valid_until |-> DateOrNone(units[lastOf(code)].valid_until)]]

\* _get_existing_operating_unit_data: code -> comparable data; in the dict
\* comprehension a later record of search([]) replaces an earlier one with
\* the same code
GetExistingOperatingUnitData(units) ==
    LET codes == {units[i].code : i \in DOMAIN units}
        lastOf(code) == CHOOSE i \in DOMAIN units :
                            /\ units[i].code = code
                            /\ \A j \in DOMAIN units : units[j].code = code => j <= i
    IN  [code \in codes |->
            [object |-> lastOf(code),
             name |-> units[lastOf(code)].name,
             valid_from |-> DateOrNone(units[lastOf(code)].valid_from),
             valid_until |-> DateOrNone(units[lastOf(code)].valid_until)]]

\* variant of _get_update_vals_operating_unit that writes both dates whether
\* they differ or not
GetUpdateValsOperatingUnitAllDates(new_data, existing_data) ==
    LET keys == {"valid_from", "valid_until"} \cup
                (IF new_data.name # existing_data.name THEN {"name"} ELSE {})
    IN  [k \in keys |->
            CASE k = "name" -> PyStr(new_data.name)
              [] k = "valid_from" -> new_data.valid_from
              [] OTHER -> new_data.valid_until]

\* _get_update_vals_operating_unit: the keys whose values differ, with the
\* remote value
GetUpdateValsOperatingUnit(new_data, existing_data) ==
    LET keys ==
            (IF new_data.name # existing_data.name THEN {"name"} ELSE {}) \cup
            (IF new_data.valid_from # existing_data.valid_from
             THEN {"valid_from"} ELSE {}) \cup
            (IF new_data.valid_until # existing_data.valid_until
             THEN {"valid_until"} ELSE {})
    IN  [k \in keys |->
            CASE k = "name" -> PyStr(new_data.name)
              [] k = "valid_from" -> new_data.valid_from
              [] OTHER -> new_data.valid_until]

\* record.write(vals) on an operating unit
WriteOu(ou, vals) ==
    [ou EXCEPT
        !.name = IF "name" \in DOMAIN vals THEN vals["name"].v ELSE @,
        !.valid_from = IF "valid_from" \in DOMAIN vals
                       THEN ToDate(vals["valid_from"]) ELSE @,
        !.valid_until = IF "valid_until" \in DOMAIN vals
                        THEN ToDate(vals["valid_until"]) ELSE @,
        !.synced_with_grt = IF "synced_with_grt" \in DOMAIN vals
                            THEN Truthy(vals["synced_with_grt"]) ELSE @]

\* variant of _get_ou_create_vals that leaves synced_with_grt at its default
GetOuCreateValsUnsynced(code, data) ==
    [code |-> code,
     name |-> data.name,
     company_id |-> data.company_id,
     valid_from |-> data.valid_from,
     valid_until |-> data.valid_until,
     synced_with_grt |-> FALSE]

\* _get_ou_create_vals
GetOuCreateVals(code, data) ==
    [code |-> code,
     name |-> data.name,
     company_id |-> data.company_id,
     valid_from |-> data.valid_from,
     valid_until |-> data.valid_until,
     synced_with_grt |-> TRUE]

\* variant of _get_ou_partner_create_vals that takes the city from the name
GetOuPartnerCreateValsCityName(data) ==
    [name |-> data.name, city |-> data.name, country_id |-> data.country_id]

\* _get_ou_partner_create_vals
GetOuPartnerCreateVals(data) ==
    [name |-> data.name, city |-> data.branch, country_id |-> data.country_id]

\* self.create(vals) on operating.unit: the stored record
CreateOu(vals) ==
    [code |-> vals.code,
     name |-> vals.name,
     company_id |-> vals.company_id,
     valid_from |-> ToDate(vals.valid_from),
     valid_until |-> ToDate(vals.valid_until),
     synced_with_grt |-> vals.synced_with_grt,
     partner_id |-> vals.partner_id]

-----------------------------------------------------------------------------
(* The Differencer/Applier: _process_grt_operating_unit_data *)

\* _get_create_vals_operating_unit: creates the partner (it gets the next id)
\* and returns the operating unit's values, which refer to it
GetCreateValsOperatingUnit(code, new_data, parts) ==
    LET create_vals == GetOuCreateVals(code, new_data)
        partner_create_vals == GetOuPartnerCreateVals(new_data)
        partner_id == Len(parts) + 1
    IN  [partner |-> partner_create_vals,
         vals |-> [code |-> create_vals.code,
                   name |-> create_vals.name,
                   company_id |-> create_vals.company_id,
                   valid_from |-> create_vals.valid_from,
                   valid_until |-> create_vals.valid_until,
                   synced_with_grt |-> create_vals.synced_with_grt,
                   partner_id |-> partner_id]]

\* the loop over branches_data.items(); acc holds the records as written so
\* far, the log of write() calls and create_vals_list
RECURSIVE ProcessLoop(_, _, _)
ProcessLoop(acc, branches_data, existing) ==
    IF branches_data = <<>> THEN acc
    ELSE LET code == Head(branches_data).code
             branch_data == Head(branches_data).data
             rest == Tail(branches_data)
         IN  IF code \in DOMAIN existing
             THEN LET vals == GetUpdateValsOperatingUnit(branch_data, existing[code])
                      id == existing[code].object
                  IN  IF DOMAIN vals # {}
                      THEN LET vals2 == ("synced_with_grt" :> PyTrue) @@ vals
                           IN  ProcessLoop(
                                   [acc EXCEPT
                                       !.ous[id] = WriteOu(@, vals2),
                                       !.writes = Append(@, [id |-> id, vals |-> vals2])],
                                   rest, existing)
                      ELSE ProcessLoop(acc, rest, existing)
             ELSE LET made == GetCreateValsOperatingUnit(code, branch_data, acc.partners)
                  IN  ProcessLoop(
                          [acc EXCEPT
                              !.partners = Append(@, made.partner),
                              !.partnerCreates = Append(@, Len(acc.partners) + 1),
                              !.creates = Append(@, made.vals)],
                          rest, existing)

\* self.create(create_vals_list): the records get the next ids, in order
RECURSIVE CreateAll(_, _)
CreateAll(units, create_vals_list) ==
    IF create_vals_list = <<>> THEN units
    ELSE CreateAll(Append(units, CreateOu(Head(create_vals_list))),
                   Tail(create_vals_list))

\* _process_grt_operating_unit_data on the records units, parts: the records
\* afterwards, and what was written and created
ProcessGrtOperatingUnitData(data, units, parts) ==
    LET branches_data == GetGrtApiBranches(data)
        start == [ous |-> units, partners |-> parts, writes |-> <<>>,
                  creates |-> <<>>, partnerCreates |-> <<>>]
    IN  IF branches_data # <<>>
        THEN LET acc == ProcessLoop(start, branches_data,
                                    GetExistingOperatingUnitData(units))
             IN  [acc EXCEPT !.ous = CreateAll(@, acc.creates)]
        ELSE start

-----------------------------------------------------------------------------
(* The Fetcher *)

\* _get_grt_api_params: the url, and the key from the environment or else
\* from the configuration parameter
GetGrtApiParams(cfg) ==
    [api_url |-> cfg.url,
     api_key |-> IF Truthy(cfg.envKey) THEN cfg.envKey ELSE cfg.paramKey]

Absent == [kind |-> "none", body |-> <<>>]

\* variant of _fetch_grt_operating_unit_data without the test of the status
FetchGrtOperatingUnitDataAnyStatus(cfg, resp) ==
    LET params == GetGrtApiParams(cfg)
    IN  IF ~Truthy(params.api_url) \/ ~Truthy(params.api_key)
        THEN [data |-> Absent, requests |-> 0]
        ELSE IF resp.exc \/ resp.json = "invalid"
        THEN [data |-> Absent, requests |-> 1]
        ELSE [data |-> [kind |-> resp.json, body |-> resp.body], requests |-> 1]

\* _fetch_grt_operating_unit_data: what it returns and how many requests it
\* issued.  resp is what requests.get does: it raises (exc), or answers with
\* a status and a body that decodes to a list, to a dict, or does not decode.
\* Every exception inside the try block is caught and logged.
FetchGrtOperatingUnitData(cfg, resp) ==
    LET params == GetGrtApiParams(cfg)
    IN  IF ~Truthy(params.api_url) \/ ~Truthy(params.api_key)
        THEN [data |-> Absent, requests |-> 0]
        ELSE IF resp.exc
        THEN [data |-> Absent, requests |-> 1]
        ELSE IF resp.status = StatusOk
        THEN IF resp.json = "invalid"
             THEN [data |-> Absent, requests |-> 1]
             ELSE [data |-> [kind |-> resp.json, body |-> resp.body],
                   requests |-> 1]
        \* r.json().get("detail"): raises for a body that does not decode or
        \* decodes to a list, logs a warning for a dict; nothing is returned
        ELSE [data |-> Absent, requests |-> 1]

\* "if data := ...": None, [] and {} are falsy; the model's dict is not empty
DataTruthy(data) ==
    \/ data.kind = "dict"
    \/ data.kind = "list" /\ data.body # <<>>

-----------------------------------------------------------------------------
(* Inputs *)

Rec(id, level, from, until, branch, unit, country) ==
    ("management_id" :> id) @@ ("management_id_level_number" :> level) @@
    ("operational_from" :> from) @@ ("operational_until" :> until) @@
    ("l5_branch" :> branch) @@ ("l8_operating_unit" :> unit) @@
    ("l10_operating_country" :> country)

Without(r, keys) == [k \in DOMAIN r \ keys |-> r[k]]

RFull ==
    Rec("ABC00001", 5, PyStr("2024-01-01"), PyStr("2024-12-31"),
        "Downtown", "Retail", "Canada")
RLater ==
    Rec("ABC00001", 5, PyStr("2024-01-01"), PyStr("2025-06-30"),
        "Downtown", "Retail", "Canada")
ROffice ==
    Rec("ABC00001", 5, PyStr("2024-01-01"), PyStr("2024-12-31"),
        "Downtown", "Retail", "Atlantis") @@ ("is_office" :> PyTrue)
RNoDates ==
    Without(Rec("XYZ00002", 5, PyNone, PyNone, "Uptown", "Retail", "Canada"),
            {"operational_from"})
RLevel4 ==
    Rec("XYZ00002", 4, PyStr("2024-01-01"), PyNone, "Region", "Retail", "Canada")
RNoId ==
    Without(Rec("", 5, PyNone, PyNone, "Nowhere", "Retail", "Canada"),
            {"management_id"})

Records == {RFull, RLater, ROffice, RNoDates, RLevel4, RNoId}

\* the payloads of the model, up to MaxPayloadLen records: each record alone,
\* a management_id repeated, two codes in either order, a kept record next to
\* a dropped one or to one without management_id, the same code kept and
\* dropped; and some of three records
PayloadPool ==
    {<<>>} \cup {<<r>> : r \in Records} \cup
    {<<RFull, RLater>>, <<RFull, RNoDates>>, <<RNoDates, RFull>>,
     <<RLevel4, RFull>>, <<RNoId, RFull>>, <<RNoDates, RLevel4>>,
     <<RLevel4, RNoDates>>} \cup
    {<<RFull, RNoDates, RLater>>, <<RNoId, RLevel4, ROffice>>,
     <<RNoDates, RFull, RNoDates>>}

Payloads == {p \in PayloadPool : Len(p) <= MaxPayloadLen}

\* ir.config_parameter and the environment: no url, no key at all, the key
\* in the environment, the key in the configuration parameter
ApiConfigs ==
    {[url |-> PyNone, envKey |-> PyStr("secret"), paramKey |-> PyNone],
     [url |-> PyStr("https://grt.example/api"), envKey |-> PyNone, paramKey |-> PyNone],
     [url |-> PyStr("https://grt.example/api"), envKey |-> PyStr("secret"), paramKey |-> PyNone],
     [url |-> PyStr("https://grt.example/api"), envKey |-> PyNone, paramKey |-> PyStr("secret")]}

Timeout == [exc |-> TRUE, status |-> 0, json |-> "invalid", body |-> <<>>]

\* what the endpoint answers: 200 with any payload, an error status with a
\* list, a dict or a body that is no JSON, 200 with a dict or no JSON
Responses ==
    {Timeout} \cup
    [exc : {FALSE}, status : {200}, json : {"list"}, body : Payloads] \cup
    [exc : {FALSE}, status : {500}, json : {"list"}, body : {<<RFull>>}] \cup
    [exc : {FALSE}, status : {200, 500}, json : {"dict", "invalid"}, body : {<<>>}]

\* the runs of the model: with the parameters of the configuration parameter
\* every response, with the others one
CronInputs ==
    {in \in [cfg : ApiConfigs, resp : Responses] :
        \/ Truthy(in.cfg.url) /\ Truthy(in.cfg.paramKey)
        \/ in.resp = [exc |-> FALSE, status |-> 200, json |-> "list", body |-> <<RFull>>]}

\* an operating unit a user created by hand, with the data of RFull, and its
\* partner
ManualOu ==
    [code |-> "ABC00001",
     name |-> "ABC00001 - OU Retail, Branch Downtown",
     company_id |-> 1,
     valid_from |-> <<2024, 1, 1>>,
     valid_until |-> <<2024, 12, 31>>,
     synced_with_grt |-> FALSE,
     partner_id |-> 1]

ManualPartner == [name |-> "Downtown branch", city |-> "Downtown", country_id |-> 1]

-----------------------------------------------------------------------------
(* The state machine *)

Idle ==
    [kind |-> "init", urlSet |-> FALSE, keySet |-> FALSE, resp |-> Absent,
     status |-> 0, exc |-> FALSE, requests |-> 0, escaped |-> FALSE,
     processed |-> FALSE, data |-> <<>>, repeat |-> FALSE,
     pre |-> <<>>, prePartners |-> <<>>,
     writes |-> <<>>, creates |-> <<>>, partnerCreates |-> <<>>,
     rejected |-> FALSE]

Init ==
    /\ companies = [c \in CompanyIds |-> PyFalse]
    /\ \/ ous = <<>> /\ partners = <<>>
       \/ ous = <<ManualOu>> /\ partners = <<ManualPartner>>
    /\ syncCreated = {}
    /\ last = Idle

\* a user saves grt_code_prefixes on company c: the write, then the
\* constraint; a ValidationError rolls the write back
CompanyWrite(c, value) ==
    /\ LET written == [companies EXCEPT ![c] = value]
       IN  IF CheckCodePrefixUnique(written, c)
           THEN /\ companies' = written
                /\ last' = [Idle EXCEPT !.kind = "save"]
           ELSE /\ companies' = companies
                /\ last' = [Idle EXCEPT !.kind = "save", !.rejected = TRUE]
    /\ UNCHANGED <<ous, partners, syncCreated>>

\* _sync_operating_unit_data_with_grt_cron: fetch, and process what was
\* fetched if it is truthy.  A dict makes the loop of _get_grt_api_branches
\* call .get on its string keys: the AttributeError escapes and the
\* transaction is rolled back.
SyncOperatingUnitDataWithGrtCron(cfg, resp) ==
    /\ \E fetched \in {FetchGrtOperatingUnitData(cfg, resp)} :
         LET params == GetGrtApiParams(cfg)
             asked == fetched.requests > 0
             run == [Idle EXCEPT
                        !.kind = "cron",
                        !.urlSet = Truthy(params.api_url),
                        !.keySet = Truthy(params.api_key),
                        !.requests = fetched.requests,
                        !.exc = asked /\ resp.exc,
                        !.status = IF asked THEN resp.status ELSE 0,
                        !.resp = IF asked /\ ~resp.exc
                                 THEN [kind |-> resp.json, body |-> resp.body]
                                 ELSE Absent,
                        !.pre = ous,
                        !.prePartners = partners]
         IN  IF DataTruthy(fetched.data) /\ fetched.data.kind = "list"
             THEN \E done \in {ProcessGrtOperatingUnitData(fetched.data.body,
                                                           ous, partners)} :
                      /\ ous' = done.ous
                      /\ partners' = done.partners
                      /\ syncCreated' =
                             syncCreated \cup (DOMAIN done.ous \ DOMAIN ous)
                      /\ last' = [run EXCEPT
                                     !.processed = TRUE,
                                     !.data = fetched.data.body,
                                     !.repeat = /\ last.kind = "cron"
                                                /\ last.processed
                                                /\ last.data = fetched.data.body,
                                     !.writes = done.writes,
                                     !.creates = done.creates,
                                     !.partnerCreates = done.partnerCreates]
             ELSE /\ last' = [run EXCEPT !.escaped = DataTruthy(fetched.data)]
                  /\ UNCHANGED <<ous, partners, syncCreated>>
    /\ UNCHANGED companies

Next ==
    \/ \E c \in CompanyIds, value \in PrefixInputs : CompanyWrite(c, value)
    \/ \E in \in CronInputs : SyncOperatingUnitDataWithGrtCron(in.cfg, in.resp)

Spec == Init /\ [][Next]_vars
-----------------------------------------------------------------------------
(* What the properties speak of.  These are stated from the payload and the
   stored records, not through the operators of the run. *)

\* the last operation was a cron run that called
\* _process_grt_operating_unit_data(last.data)
Ran == last.kind = "cron" /\ last.processed

\* a remote record that is at level 5 and whose management_id starts with a
\* configured prefix
Kept(r) ==
    /\ "management_id_level_number" \in DOMAIN r
    /\ r["management_id_level_number"] = 5
    /\ "management_id" \in DOMAIN r
    /\ \E c \in CompanyIds :
           /\ companies[c].t = "str"
           /\ \E p \in SeqRange(SplitPrefixes(companies[c])) :
                  p = SubSeq(r["management_id"], 1, Min(3, Len(r["management_id"])))

KeptCodes == {last.data[i]["management_id"] : i \in {k \in DOMAIN last.data : Kept(last.data[k])}}

\* the record of the payload that stands for a code: the last kept one
SourceOf(code) ==
    last.data[CHOOSE i \in DOMAIN last.data :
                 /\ Kept(last.data[i])
                 /\ last.data[i]["management_id"] = code
                 /\ \A j \in DOMAIN last.data :
                        (Kept(last.data[j]) /\ last.data[j]["management_id"] = code)
                            => j <= i]

WritesOf(id) == {i \in DOMAIN last.writes : last.writes[i].id = id}

NothingDone ==
    /\ last.writes = <<>>
    /\ last.creates = <<>>
    /\ last.partnerCreates = <<>>
    /\ ous = last.pre
    /\ partners = last.prePartners

\* the prefixes configured on a company
PrefixesOf(c) ==
    IF companies[c].t = "str" THEN SeqRange(SplitPrefixes(companies[c])) ELSE {}

-----------------------------------------------------------------------------
\* C1: a run of _process_grt_operating_unit_data that directly follows a run
\* with the identical payload writes nothing and creates nothing, on
\* operating units and on partners.
C1_Idempotent == (Ran /\ last.repeat) => NothingDone

\* C2: no prefix is configured on two different companies.
C2_PrefixesUnique ==
    \A c1 \in CompanyIds, c2 \in CompanyIds :
        c1 # c2 => PrefixesOf(c1) \cap PrefixesOf(c2) = {}

\* C3: after a run, every operating unit that was not synced before it and
\* whose code is in the filtered remote set is synced.
C3_MarksSynced ==
    Ran => \A id \in DOMAIN last.pre :
               (~last.pre[id].synced_with_grt /\ last.pre[id].code \in KeptCodes)
                   => ous[id].synced_with_grt

\* C4: each code identifies at most one operating unit, and a run creates an
\* operating unit for a code only if none had that code when the run began,
\* and only one for a code.
C4_CodeUnique ==
    /\ \A i \in DOMAIN ous, j \in DOMAIN ous : ous[i].code = ous[j].code => i = j
    /\ Ran => \A i \in DOMAIN last.creates :
                  /\ \A k \in DOMAIN last.pre : last.pre[k].code # last.creates[i].code
                  /\ \A j \in DOMAIN last.creates :
                         last.creates[j].code = last.creates[i].code => i = j

\* C4 witness: a payload that repeats a management_id is matched against an
\* operating unit an earlier run created, and nothing is created.
C4_Witness ==
    /\ Ran
    /\ last.creates = <<>>
    /\ \E i \in DOMAIN last.data, j \in DOMAIN last.data :
           /\ i # j
           /\ Kept(last.data[i]) /\ Kept(last.data[j])
           /\ last.data[i]["management_id"] = last.data[j]["management_id"]
           /\ \E id \in syncCreated \cap DOMAIN last.pre :
                  last.pre[id].code = last.data[i]["management_id"]

\* C5: every operating unit a run creates or writes has the code of a record
\* at level 5 with a configured prefix, and a created unit has the dates and
\* the branch of such a record: records at another level or with another
\* prefix contribute nothing.
C5_FilterExcludes ==
    Ran =>
        /\ \A i \in DOMAIN last.writes : last.pre[last.writes[i].id].code \in KeptCodes
        /\ \A i \in DOMAIN last.creates :
               /\ last.creates[i].code \in KeptCodes
               /\ \E k \in DOMAIN last.data :
                      /\ Kept(last.data[k])
                      /\ last.data[k]["management_id"] = last.creates[i].code
                      /\ partners[last.creates[i].partner_id].city
                             = Get(last.data[k], "l5_branch", "")
                      /\ last.creates[i].valid_from
                             = Get(last.data[k], "operational_from", PyFalse)

\* C5 witness: a payload with a record the filter drops (level other than 5
\* under a configured prefix, or level 5 under a foreign prefix) next to a
\* record it keeps, from which a unit is created.
C5_Witness ==
    /\ Ran
    /\ Len(last.creates) = 1
    /\ \E i \in DOMAIN last.data : Kept(last.data[i])
    /\ \E i \in DOMAIN last.data :
           /\ ~Kept(last.data[i])
           /\ "management_id" \in DOMAIN last.data[i]
           /\ last.data[i]["management_id"] \notin KeptCodes

RequiredKeys ==
    {"management_id", "operational_from", "operational_until", "l5_branch",
     "l8_operating_unit", "l10_operating_country"}

\* C6: when a record at level 5 under a configured prefix lacks a required
\* key, the run creates and writes nothing.
C6_FailFast ==
    Ran =>
        ((\E i \in DOMAIN last.data :
              /\ IsBranchLevel(last.data[i])
              /\ IsCodeCompany(last.data[i], GetOuCodeCompanyMapping(companies))
              /\ ~(RequiredKeys \subseteq DOMAIN last.data[i]))
            => NothingDone)

\* what the code compares a remote value with: the stored name, the stored
\* date as "%Y-%m-%d" or None
Comparable(ou, k) ==
    CASE k = "name" -> PyStr(ou.name)
      [] k = "valid_from" ->
             IF ou.valid_from = <<>> THEN PyNone ELSE PyStr(Strftime(ou.valid_from))
      [] OTHER ->
             IF ou.valid_until = <<>> THEN PyNone ELSE PyStr(Strftime(ou.valid_until))

FrameOfIdentity(id) ==
    /\ ous[id].code = last.pre[id].code
    /\ ous[id].company_id = last.pre[id].company_id
    /\ ous[id].partner_id = last.pre[id].partner_id
    /\ \A p \in DOMAIN last.prePartners : partners[p] = last.prePartners[p]

\* C7 as stated: an update writes at most once, only validity fields and
\* synced_with_grt; code, name, company_id, partner_id and the partner stay.
C7_Original ==
    Ran => \A id \in DOMAIN last.pre :
               /\ Cardinality(WritesOf(id)) <= 1
               /\ \A i \in WritesOf(id) :
                      DOMAIN last.writes[i].vals
                          \subseteq {"valid_from", "valid_until", "synced_with_grt"}
               /\ ous[id].name = last.pre[id].name
               /\ FrameOfIdentity(id)

\* C7 amended: an update writes at most once; the write holds synced_with_grt
\* = True and, of name, valid_from and valid_until, exactly those whose remote
\* value compares unequal to the stored one; a field not written keeps its
\* value; code, company_id, partner_id and the partners stay.  When only
\* operational_until differs, the one write is {valid_until, synced_with_grt}.
C7_UpdateFrame ==
    Ran => \A id \in DOMAIN last.pre :
               /\ Cardinality(WritesOf(id)) <= 1
               /\ \A i \in WritesOf(id) :
                      LET vals == last.writes[i].vals
                          remote == SourceOf(last.pre[id].code)
                      IN  /\ DOMAIN vals \subseteq
                                 {"name", "valid_from", "valid_until", "synced_with_grt"}
                          /\ "synced_with_grt" \in DOMAIN vals
                          /\ vals["synced_with_grt"] = PyTrue
                          /\ \A k \in DOMAIN vals \ {"synced_with_grt"} :
                                 vals[k] # Comparable(last.pre[id], k)
                          /\ "valid_from" \in DOMAIN vals <=>
                                 Get(remote, "operational_from", PyFalse)
                                     # Comparable(last.pre[id], "valid_from")
                          /\ "valid_until" \in DOMAIN vals <=>
                                 Get(remote, "operational_until", PyFalse)
                                     # Comparable(last.pre[id], "valid_until")
                          /\ "name" \notin DOMAIN vals => ous[id].name = last.pre[id].name
                          /\ "valid_from" \notin DOMAIN vals
                                 => ous[id].valid_from = last.pre[id].valid_from
                          /\ "valid_until" \notin DOMAIN vals
                                 => ous[id].valid_until = last.pre[id].valid_until
               /\ WritesOf(id) = {} => ous[id] = last.pre[id]
               /\ FrameOfIdentity(id)
               /\ (/\ last.data = <<RLater>>
                   /\ "ABC00001" \in KeptCodes
                   /\ last.pre[id].code = "ABC00001"
                   /\ last.pre[id].name = "ABC00001 - OU Retail, Branch Downtown"
                   /\ last.pre[id].valid_from = <<2024, 1, 1>>
                   /\ last.pre[id].valid_until = <<2024, 12, 31>>)
                  => /\ last.writes =
                            <<[id |-> id,
                               vals |-> ("valid_until" :> PyStr("2025-06-30")) @@
                                        ("synced_with_grt" :> PyTrue)]>>
                     /\ ous[id].valid_until = <<2025, 6, 30>>

\* C7 witness: the update-path scenario; only operational_until differs and
\* one write changes valid_until.
C7_Witness ==
    /\ Ran
    /\ last.data = <<RLater>>
    /\ Len(last.writes) = 1
    /\ DOMAIN last.writes[1].vals = {"valid_until", "synced_with_grt"}
    /\ last.pre[last.writes[1].id].valid_until = <<2024, 12, 31>>
    /\ ous[last.writes[1].id].valid_until = <<2025, 6, 30>>

NotOffice(r) == "is_office" \notin DOMAIN r \/ r["is_office"] # PyTrue

\* what holds of the i-th unit a run creates; its partner is named like the
\* unit (withCode) or "OU U, Branch B"
CreatedUnit(i, withCode) ==
    LET code == last.creates[i].code
        r == SourceOf(code)
        id == Len(last.pre) + i
        pid == Len(last.prePartners) + i
        U == Get(r, "l8_operating_unit", "")
        B == Get(r, "l5_branch", "")
    IN  /\ id \in DOMAIN ous /\ pid \in DOMAIN partners
        /\ ous[id].code = code
        /\ ous[id].synced_with_grt
        /\ ous[id].partner_id = pid
        /\ \A j \in DOMAIN ous : ous[j].partner_id = pid => j = id
        /\ \A j \in DOMAIN ous : ous[j].code = code => j = id
        /\ \E c \in CompanyIds :
               /\ ous[id].company_id = c
               /\ SubSeq(code, 1, Min(3, Len(code))) \in PrefixesOf(c)
               /\ GetOuCodeCompanyMapping(companies)[SubSeq(code, 1, Min(3, Len(code)))] = c
        /\ NotOffice(r) =>
               /\ ous[id].name = code \o " - OU " \o U \o ", Branch " \o B
               /\ partners[pid].name =
                      (IF withCode THEN code \o " - " ELSE "")
                          \o "OU " \o U \o ", Branch " \o B
               /\ partners[pid].city = B

CreateCounts ==
    /\ Len(ous) = Len(last.pre) + Len(last.creates)
    /\ Len(partners) = Len(last.prePartners) + Len(last.creates)
    /\ \A id \in DOMAIN last.pre :
           ous[id].partner_id \in DOMAIN last.prePartners

\* C8 as stated: each create candidate gets one new partner named
\* "OU U, Branch B" with city B and one new unit named "<code> - OU U, Branch B"
\* of the prefix's company, synced, referring to that partner alone.
C8_Original ==
    Ran => /\ CreateCounts
           /\ \A i \in DOMAIN last.creates : CreatedUnit(i, FALSE)

\* C8 amended: as stated, but the new partner's name is the operating unit's
\* name, "<code> - OU U, Branch B".
C8_CreateResult ==
    Ran => /\ CreateCounts
           /\ \A i \in DOMAIN last.creates : CreatedUnit(i, TRUE)

\* C8 witness: the create-path scenario; one unit is created from a record
\* that is no office.
C8_Witness ==
    /\ Ran
    /\ last.data = <<RFull>>
    /\ Len(last.creates) = 1
    /\ ous[Len(ous)].name = "ABC00001 - OU Retail, Branch Downtown"
    /\ partners[ous[Len(ous)].partner_id].city = "Downtown"

\* the fetch of the last run failed: url or key missing, the request raised,
\* the status was not 200, or the body was no JSON
FetchFailed ==
    /\ last.kind = "cron"
    /\ \/ ~last.urlSet
       \/ ~last.keySet
       \/ last.exc
       \/ last.status # 200
       \/ last.resp.kind = "invalid"

\* C9: a run whose fetch fails lets no exception escape and creates and
\* writes nothing; without url or key it issues no request.
C9_FetchContained ==
    FetchFailed =>
        /\ ~last.escaped
        /\ ~last.processed
        /\ NothingDone
        /\ (~last.urlSet \/ ~last.keySet) => last.requests = 0

\* C9 witness: the endpoint answered 500 with a list that a run would have
\* created a unit from.
C9_Witness ==
    /\ last.kind = "cron"
    /\ last.requests = 1
    /\ last.status = 500
    /\ last.resp.kind = "list"
    /\ \E i \in DOMAIN last.resp.body :
           /\ Kept(last.resp.body[i])
           /\ \A id \in DOMAIN ous : ous[id].code # last.resp.body[i]["management_id"]

\* C10: no step removes an operating unit or resets synced_with_grt, and a
\* unit that appears is synced.
C10_SyncedForever ==
    [][/\ \A id \in DOMAIN ous :
              /\ id \in DOMAIN ous'
              /\ ous[id].synced_with_grt => ous'[id].synced_with_grt
       /\ \A id \in DOMAIN ous' \ DOMAIN ous : ous'[id].synced_with_grt]_vars

\* C10 witness: a run has written a unit that was synced before, next to a
\* unit a run created.
C10_Witness ==
    /\ Ran
    /\ syncCreated # {}
    /\ \E i \in DOMAIN last.writes :
           /\ last.pre[last.writes[i].id].synced_with_grt
           /\ ous[last.writes[i].id].synced_with_grt
====
